---------------------------- MODULE Spec2Model ----------------------------
(***************************************************************************)
(* Model of src/or/rendcommon.c: the rendezvous service descriptor codec,  *)
(* the service-ID function and the service descriptor cache.               *)
(*                                                                         *)
(* Byte strings are sequences over 0..255, C strings are sequences of      *)
(* one-character strings, pointers into a buffer are 0-based offsets.      *)
(***************************************************************************)
EXTENDS Integers, Sequences, FiniteSets, TLC

(***************************************************************************)
(* Bounds of the model.                                                    *)
(***************************************************************************)
\* Wall-clock time of the first call.
Base == 1000000
\* The wall clock takes the values Base .. Base + MaxTick.
MaxTick == 1
\* Seconds the wall clock may advance between two time(NULL) reads of one call.
MaxDrift == 1

(***************************************************************************)
(* Program constants.                                                      *)
(***************************************************************************)
REND_CACHE_MAX_AGE == 24 * 60 * 60
REND_CACHE_MAX_SKEW == 90 * 60
REND_SERVICE_ID_LEN == 16
DIGEST_LEN == 20

(***************************************************************************)
(* Generic helpers.                                                        *)
(***************************************************************************)
\* Pow2[n + 1] = 2^n.
Pow2 == << 1, 2, 4, 8, 16, 32, 64, 128, 256, 512, 1024, 2048 >>

\* The byte at 0-based offset j.  A read at or beyond Len(str) is outside the
\* buffer; the codec records every read it makes, the value such a read
\* would see is taken as 0.
ByteAt(str, j) == IF j < Len(str) THEN str[j + 1] ELSE 0

\* Bytes of str at 0-based offsets from .. to-1.
Slice(str, from, to) == [i \in 1..(to - from) |-> ByteAt(str, from + i - 1)]

\* A time_t is 64 bits wide and a uint32_t takes values up to 2^32 - 1, both
\* beyond the integers of the model checker.  A time is kept in two parts:
\* `timestamp` holds bits 0..30 and `timestamp_hi` the bits from 31 up, so the
\* time is timestamp_hi * 2^31 + timestamp.
MaxLow == 2147483647

\* set_uint16(cp, htons((uint16_t)v)): the big-endian bytes of the low 16 bits.
PutUint16(v) == << (v \div 256) % 256, v % 256 >>

\* A uint32 of 2^32 - 1 in place of every time of 2^32 or more.
PutUint32_Saturating(hi, lo) ==
  IF hi >= 2 THEN << 255, 255, 255, 255 >>
  ELSE << hi * 128 + ((lo \div 16777216) % 128), (lo \div 65536) % 256,
          (lo \div 256) % 256, lo % 256 >>

\* set_uint32(cp, htonl((uint32_t)t)) for the time t = hi * 2^31 + lo: the
\* big-endian bytes of the low 32 bits, bit 31 being the low bit of hi.
PutUint32(hi, lo) ==
  << (hi % 2) * 128 + ((lo \div 16777216) % 128), (lo \div 65536) % 256,
     (lo \div 256) % 256, lo % 256 >>

\* ntohs(get_uint16(cp)) at 0-based offset cp.
GetUint16_LittleEndian(str, cp) == ByteAt(str, cp + 1) * 256 + ByteAt(str, cp)

GetUint16(str, cp) == ByteAt(str, cp) * 256 + ByteAt(str, cp + 1)

\* ntohl(get_uint32(cp)) at 0-based offset cp, in the two parts of a time.
GetUint32(str, cp) ==
  [hi |-> ByteAt(str, cp) \div 128,
   lo |-> (ByteAt(str, cp) % 128) * 16777216 + ByteAt(str, cp + 1) * 65536
            + ByteAt(str, cp + 2) * 256 + ByteAt(str, cp + 3)]

(***************************************************************************)
(* The crypto collaborator (crypto.c), by its contract.  Keys are small    *)
(* numbers; a key pair shares its number.                                  *)
(***************************************************************************)
AllKeys == {1, 2, 3, 4}

\* crypto_pk_keysize: the modulus length in bytes, scaled down; key 4 has the
\* longer modulus.
crypto_pk_keysize(pk) == IF pk = 4 THEN 3 ELSE 2

\* crypto_pk_asn1_encode: the DER bytes of the public key, scaled down.
crypto_pk_asn1_encode(pk) == << 48, pk >>

\* crypto_pk_asn1_decode: the key whose DER bytes these are, or 0 (NULL).
crypto_pk_asn1_decode(bytes) ==
  IF \E k \in AllKeys : crypto_pk_asn1_encode(k) = bytes
    THEN CHOOSE k \in AllKeys : crypto_pk_asn1_encode(k) = bytes
    ELSE 0

\* Digest of a byte string: every single-byte change changes it.
RECURSIVE DataDigest(_, _)
DataDigest(data, n) ==
  IF n = 0 THEN 7 ELSE (DataDigest(data, n - 1) * 31 + data[n] + 1) % 65536

\* crypto_pk_private_sign_digest: a signature of crypto_pk_keysize bytes.
crypto_pk_private_sign_digest(key, data) ==
  [i \in 1..(crypto_pk_keysize(key) - 2) |-> 160 + key]
    \o PutUint16((DataDigest(data, Len(data)) + 257 * key) % 65536)

\* crypto_pk_public_checksig_digest: 0 when sig signs data under pk, else -1.
crypto_pk_public_checksig_digest(pk, data, sig) ==
  IF sig = crypto_pk_private_sign_digest(pk, data) THEN 0 ELSE -1

\* crypto_pk_get_digest: DIGEST_LEN bytes that depend on the key alone.
crypto_pk_get_digest(pk) == [i \in 1..DIGEST_LEN |-> (pk * 89 + i * 37) % 256]

BASE32_CHARS ==
  << "a", "b", "c", "d", "e", "f", "g", "h", "i", "j", "k", "l", "m", "n", "o", "p",
     "q", "r", "s", "t", "u", "v", "w", "x", "y", "z", "2", "3", "4", "5", "6", "7" >>

\* base32_encode(dest, destlen, src, srclen): the encoded string, or -1.
base32_encode(destlen, src, srclen) ==
  LET nbits == srclen * 8
      at(j) == IF j <= srclen THEN src[j] ELSE 0
      group(g) ==
        LET bit == g * 5
            j == (bit \div 8) + 1
            off == bit % 8
            v == at(j) * 256 + at(j + 1)
        IN  (v \div Pow2[11 - off + 1]) % 32
  IN  IF nbits % 5 # 0 \/ (nbits \div 5) + 1 > destlen
        THEN [ret |-> -1, out |-> << >>]
        ELSE [ret |-> 0,
              out |-> [g \in 1..(nbits \div 5) |-> BASE32_CHARS[group(g - 1) + 1]]]

(***************************************************************************)
(* rend_encode_service_descriptor                                          *)
(***************************************************************************)
RECURSIVE StrcpyAll(_, _)
\* The loop of lines 60-64: each introduction point followed by its NUL.
StrcpyAll(points, i) ==
  IF i > Len(points) THEN << >>
  ELSE points[i] \o << 0 >> \o StrcpyAll(points, i + 1)

RECURSIVE SumLens_NoNul(_, _)
\* The loop of lines 47-49 without the byte of the terminating NUL.
SumLens_NoNul(points, i) ==
  IF i > Len(points) THEN 0 ELSE Len(points[i]) + SumLens_NoNul(points, i + 1)

RECURSIVE SumLens(_, _)
\* The loop of lines 47-49.
SumLens(points, i) ==
  IF i > Len(points) THEN 0 ELSE Len(points[i]) + 1 + SumLens(points, i + 1)

\* str is what is written from *str_out on and written is cp - *str_out at
\* line 71; the buffer at *str_out has len_out bytes.  When asserted is FALSE
\* the tor_assert of line 71 fails and the process aborts.
rend_encode_service_descriptor(desc, key) ==
  LET keylen == crypto_pk_keysize(desc.pk)
      buf == crypto_pk_asn1_encode(desc.pk)
      asn1len == Len(buf)
      len_out == 2 + asn1len + 4 + 2 + keylen + SumLens(desc.intro_points, 1)
      body == PutUint16(asn1len) \o buf
              \o PutUint32(desc.timestamp_hi, desc.timestamp)
              \o PutUint16(desc.n_intro_points)
              \o StrcpyAll(desc.intro_points, 1)
      sig == crypto_pk_private_sign_digest(key, body)
      written == Len(body) + Len(sig)
  IN  [ret |-> 0, str |-> body \o sig, len_out |-> len_out,
       written |-> written, asserted |-> (len_out = written)]

(***************************************************************************)
(* rend_parse_service_descriptor.  Besides its result the model keeps the  *)
(* values the cursor cp takes (cps) and the ranges of offsets the parser   *)
(* reads (reads, each << from, to >> standing for from .. to-1).           *)
(***************************************************************************)
\* memchr(cp, '\0', end-cp): offset of the first NUL in cp..end-1, or -1.
Memchr0(str, cp, end) ==
  IF \E j \in cp..(end - 1) : ByteAt(str, j) = 0
    THEN CHOOSE j \in cp..(end - 1) :
           ByteAt(str, j) = 0 /\ \A k \in cp..(j - 1) : ByteAt(str, k) # 0
    ELSE -1

RECURSIVE ParseIntroPoints(_, _, _, _, _, _, _, _)
\* The loop of lines 103-109.  memchr looks at cp..eos, or at cp..end-1 when
\* there is no NUL; tor_strdup reads cp..eos.
ParseIntroPoints(str, end, cp, i, n, acc, cps, reads) ==
  IF i >= n
    THEN [ok |-> TRUE, cp |-> cp, intro_points |-> acc, cps |-> cps, reads |-> reads]
  ELSE IF end - cp < 2
    THEN [ok |-> FALSE, cp |-> cp, intro_points |-> acc, cps |-> cps, reads |-> reads]
  ELSE LET eos == Memchr0(str, cp, end)
       IN  IF eos < 0
             THEN [ok |-> FALSE, cp |-> cp, intro_points |-> acc, cps |-> cps,
                   reads |-> reads \cup {<< cp, end >>}]
             ELSE ParseIntroPoints(str, end, eos + 1, i + 1, n,
                                   Append(acc, Slice(str, cp, eos)),
                                   Append(cps, eos + 1),
                                   reads \cup {<< cp, eos + 1 >>})

\* Line 96: fewer than four bytes are left for the two-byte field read next.
TimestampTruncated_Two(end, cp) == end - cp < 2

\* Line 96.
TimestampTruncated(end, cp) == end - cp < 4

\* Line 111 letting a signature one byte short through.
SignatureTruncated_OneShort(end, cp, keylen) == end - cp < keylen - 1

\* Line 111.
SignatureTruncated(end, cp, keylen) == end - cp < keylen

\* Lines 112-115 left out.
SignatureTooLong_Never(end, cp, keylen) == FALSE

\* Line 112.
SignatureTooLong(end, cp, keylen) == end - cp > keylen

\* Lines 116-117 taking every signature as good.
BadSignature_Never(pk, data, sig) == FALSE

\* Lines 116-117.
BadSignature(pk, data, sig) == crypto_pk_public_checksig_digest(pk, data, sig) < 0

\* The exits through the labels truncated and error (lines 125-129), with the
\* warning logged on the way; checksig tells whether the signature check ran.
ParseFail(why, cps, reads, checksig) ==
  [ok |-> FALSE, err |-> why, cps |-> cps, reads |-> reads, checksig |-> checksig]

rend_parse_service_descriptor(str, len) ==
  LET end == len
      cps0 == << 0 >>
  IN
  IF end - 0 < 2 THEN ParseFail("truncated", cps0, {}, FALSE)
  ELSE
  LET asn1len == GetUint16(str, 0)
      cp1 == 2
      cps1 == Append(cps0, cp1)
      reads1 == {<< 0, 2 >>}
  IN
  IF end - cp1 < asn1len THEN ParseFail("truncated", cps1, reads1, FALSE)
  ELSE
  LET pk == crypto_pk_asn1_decode(Slice(str, cp1, cp1 + asn1len))
      cp2 == cp1 + asn1len
      cps2 == Append(cps1, cp2)
      reads2 == reads1 \cup {<< cp1, cp1 + asn1len >>}
  IN
  IF pk = 0 THEN ParseFail("truncated", cps1, reads2, FALSE)
  ELSE IF TimestampTruncated(end, cp2) THEN ParseFail("truncated", cps2, reads2, FALSE)
  ELSE
  LET timestamp == GetUint32(str, cp2)
      cp3 == cp2 + 4
      cps3 == Append(cps2, cp3)
      reads3 == reads2 \cup {<< cp2, cp2 + 4 >>}
  IN
  IF end - cp3 < 2 THEN ParseFail("truncated", cps3, reads3, FALSE)
  ELSE
  LET n_intro_points == GetUint16(str, cp3)
      cp4 == cp3 + 2
      cps4 == Append(cps3, cp4)
      reads4 == reads3 \cup {<< cp3, cp3 + 2 >>}
      loop == ParseIntroPoints(str, end, cp4, 0, n_intro_points, << >>, cps4, reads4)
  IN
  IF ~loop.ok THEN ParseFail("truncated", loop.cps, loop.reads, FALSE)
  ELSE
  LET cp == loop.cp
      keylen == crypto_pk_keysize(pk)
      reads5 == loop.reads \cup {<< 0, cp >>, << cp, end >>}
  IN
  IF SignatureTruncated(end, cp, keylen)
    THEN ParseFail("truncated", loop.cps, loop.reads, FALSE)
  ELSE IF SignatureTooLong(end, cp, keylen)
    THEN ParseFail("signature too long", loop.cps, loop.reads, FALSE)
  ELSE IF BadSignature(pk, Slice(str, 0, cp), Slice(str, cp, end))
    THEN ParseFail("bad signature", loop.cps, reads5, TRUE)
  ELSE [ok |-> TRUE,
        desc |-> [pk |-> pk, timestamp |-> timestamp.lo,
                  timestamp_hi |-> timestamp.hi,
                  n_intro_points |-> n_intro_points,
                  intro_points |-> loop.intro_points],
        cps |-> loop.cps, reads |-> reads5, checksig |-> TRUE]

(***************************************************************************)
(* rend_get_service_id                                                     *)
(***************************************************************************)
rend_get_service_id(pk) ==
  LET buf == crypto_pk_get_digest(pk)
  IN  base32_encode(REND_SERVICE_ID_LEN + 1, buf, 10)

(***************************************************************************)
(* The string map (strmap_t of util.c), by its contract: a map from        *)
(* strings to values; the _lc operations lowercase the key first.          *)
(***************************************************************************)
UPPER_CHARS ==
  << "A", "B", "C", "D", "E", "F", "G", "H", "I", "J", "K", "L", "M", "N", "O", "P",
     "Q", "R", "S", "T", "U", "V", "W", "X", "Y", "Z" >>

UpperSet == {UPPER_CHARS[i] : i \in 1..26}

LowerSet == {BASE32_CHARS[i] : i \in 1..26}

LowerOf == [c \in UpperSet |-> BASE32_CHARS[CHOOSE i \in 1..26 : UPPER_CHARS[i] = c]]

UpperOf == [c \in LowerSet |-> UPPER_CHARS[CHOOSE i \in 1..26 : BASE32_CHARS[i] = c]]

\* tolower / toupper on one character.
ToLower(c) == IF c \in UpperSet THEN LowerOf[c] ELSE c

ToUpper(c) == IF c \in LowerSet THEN UpperOf[c] ELSE c

StrLower(s) == [i \in 1..Len(s) |-> ToLower(s[i])]

StrUpper(s) == [i \in 1..Len(s) |-> ToUpper(s[i])]

\* The NULL entry pointer.
NullEntry == [null |-> TRUE]

strmap_get_lc(map, key) ==
  IF StrLower(key) \in DOMAIN map THEN map[StrLower(key)] ELSE NullEntry

strmap_set_lc(map, key, val) ==
  [k \in (DOMAIN map) \cup {StrLower(key)} |->
     IF k = StrLower(key) THEN val ELSE map[k]]

\* What strmap_iter_next_rmv does to the map: the current key is removed.
strmap_remove(map, key) == [k \in (DOMAIN map) \ {key} |-> map[k]]

(***************************************************************************)
(* The inputs the callers present.                                         *)
(***************************************************************************)
\* Descriptor timestamps around both edges of the freshness window.
TooOld == Base - REND_CACHE_MAX_AGE - 1
Oldest == Base - REND_CACHE_MAX_AGE
Newest == Base + REND_CACHE_MAX_SKEW
TooNew == Base + REND_CACHE_MAX_SKEW + 1

\* A descriptor signed at the time hi * 2^31 + lo.
MkWideDesc(pk, hi, lo, points) ==
  [pk |-> pk, timestamp |-> lo, timestamp_hi |-> hi,
   n_intro_points |-> Len(points), intro_points |-> points]

\* The times of the cache's callers lie below 2^31.
MkDesc(pk, timestamp, points) == MkWideDesc(pk, 0, timestamp, points)

\* Introduction point lists: "a" and "b" as bytes.
NoPoints == << >>
PointsA == << << 97 >> >>
PointsAB == << << 97 >>, << 98 >> >>

Descriptors ==
  {MkDesc(1, t, PointsA) : t \in {TooOld, Oldest, Base, Newest, TooNew}}
    \cup {MkDesc(1, Base, PointsAB)}
    \cup {MkDesc(2, t, PointsA) : t \in {Oldest, Base}}
    \cup {MkDesc(3, Oldest, NoPoints)}

Encoded(d) == rend_encode_service_descriptor(d, d.pk).str

ValidInputs == {Encoded(d) : d \in Descriptors}

\* Byte strings that are no descriptor: cut short, with a byte appended, with a
\* signature byte changed, signed with another key.
BadInputs ==
  LET v == Encoded(MkDesc(1, Base, PointsA))
  IN  {SubSeq(v, 1, Len(v) - 1),
       v \o << 0 >>,
       [v EXCEPT ![Len(v)] = (v[Len(v)] + 1) % 256],
       rend_encode_service_descriptor(MkDesc(2, Base, PointsA), 1).str}

StoreInputs == ValidInputs \cup BadInputs

\* rend_parse_service_descriptor(desc, Len(desc)) for each input, computed once.
ParsedInput == [desc \in StoreInputs |-> rend_parse_service_descriptor(desc, Len(desc))]

\* rend_get_service_id(pk) for each key, computed once.
ServiceIdOf == [pk \in AllKeys |-> rend_get_service_id(pk)]

\* The string rend_get_service_id(pk, out) writes to out.
ServiceId(pk) == ServiceIdOf[pk].out

\* Service IDs as callers may write them, and strings that are no service ID.
Queries ==
  LET id == ServiceId(1)
  IN  {id, ServiceId(4), StrUpper(id),
              [id EXCEPT ![1] = ToUpper(id[1])],
              SubSeq(id, 1, REND_SERVICE_ID_LEN - 1),
              id \o << "a" >>,
              [id EXCEPT ![REND_SERVICE_ID_LEN] = "8"]}

\* The orders in which an iterator can visit the keys of a map.
IterOrders(map) ==
  LET n == Cardinality(DOMAIN map)
  IN  {o \in [1..n -> DOMAIN map] : \A i, j \in 1..n : o[i] = o[j] => i = j}

(***************************************************************************)
(* rend_cache_clean                                                        *)
(***************************************************************************)
\* Mutant of CleanStale: the edge of the window counts as old.
CleanStale_Inclusive(ent, cutoff) == ent.parsed.timestamp <= cutoff

\* Line 176: the entry is old.
CleanStale(ent, cutoff) == ent.parsed.timestamp < cutoff

RECURSIVE CleanLoop(_, _, _)
\* The loop of lines 173-184; iter is the sequence of keys still to visit.
CleanLoop(map, iter, cutoff) ==
  IF iter = << >> THEN map
  ELSE LET key == Head(iter)
           ent == map[key]
       IN  IF CleanStale(ent, cutoff)
             THEN CleanLoop(strmap_remove(map, key), Tail(iter), cutoff)
             ELSE CleanLoop(map, Tail(iter), cutoff)

\* now is the value of time(NULL); order is the order in which the map's
\* iterator visits the keys.
rend_cache_clean(map, now, order) ==
  LET cutoff == now - REND_CACHE_MAX_AGE
  IN  CleanLoop(map, order, cutoff)

(***************************************************************************)
(* rend_valid_service_id, rend_cache_lookup_entry, rend_cache_lookup_desc  *)
(***************************************************************************)
\* The characters of BASE32_CHARS.
Base32Set == {BASE32_CHARS[i] : i \in 1..32}

\* strspn(s, accept): length of the longest prefix of s made of accept's characters.
Strspn(s, accept) ==
  LET in(c) == c \in accept
  IN  IF \A i \in 1..Len(s) : in(s[i]) THEN Len(s)
      ELSE (CHOOSE i \in 1..Len(s) : ~in(s[i]) /\ \A j \in 1..(i - 1) : in(s[j])) - 1

\* Mutant of rend_valid_service_id: the alphabet is not checked.
rend_valid_service_id_LenOnly(query) ==
  IF Len(query) # REND_SERVICE_ID_LEN THEN 0 ELSE 1

rend_valid_service_id(query) ==
  IF Len(query) # REND_SERVICE_ID_LEN THEN 0
  ELSE IF Strspn(query, Base32Set) # REND_SERVICE_ID_LEN THEN 0
  ELSE 1

rend_cache_lookup_entry(map, query) ==
  IF rend_valid_service_id(query) = 0 THEN [ret |-> -1, e |-> NullEntry]
  ELSE LET e == strmap_get_lc(map, query)
       IN  IF e = NullEntry THEN [ret |-> 0, e |-> e] ELSE [ret |-> 1, e |-> e]

\* desc and desc_len are left untouched (here: empty and -1) unless 1 is returned.
rend_cache_lookup_desc(map, query) ==
  LET r == rend_cache_lookup_entry(map, query)
  IN  IF r.ret <= 0 THEN [ret |-> r.ret, desc |-> << >>, desc_len |-> -1]
      ELSE [ret |-> 1, desc |-> r.e.desc, desc_len |-> r.e.len]

(***************************************************************************)
(* rend_cache_store                                                        *)
(***************************************************************************)
\* memcmp(a, b, n) = 0
MemEq(a, b, n) == \A i \in 1..n : a[i] = b[i]

\* Mutant of StoreQuery: the service ID of a fixed key.
StoreQuery_FixedKey(parsed) == ServiceIdOf[1]

\* Line 249: the service ID of the parsed descriptor's key.
StoreQuery(parsed) == ServiceIdOf[parsed.pk]

\* Mutant of TooOldAt: the edge of the window counts as too old.
TooOldAt_Inclusive(parsed, now) == parsed.timestamp <= now - REND_CACHE_MAX_AGE

\* Line 255 left out: no descriptor is too old.
TooOldAt_Never(parsed, now) == FALSE

\* Line 255: the descriptor is too old.
TooOldAt(parsed, now) == parsed.timestamp < now - REND_CACHE_MAX_AGE

\* Line 260: the descriptor is too far in the future.
TooNewAt(parsed, now) == parsed.timestamp > now + REND_CACHE_MAX_SKEW

\* Mutants of HaveNewer: the comparison dropped, reversed, made non-strict.
HaveNewer_Never(e, parsed) == FALSE

HaveNewer_Reversed(e, parsed) ==
  e # NullEntry /\ e.parsed.timestamp < parsed.timestamp

HaveNewer_OrEqual(e, parsed) ==
  e # NullEntry /\ e.parsed.timestamp >= parsed.timestamp

\* Line 266: we already have a newer descriptor.
HaveNewer(e, parsed) == e # NullEntry /\ e.parsed.timestamp > parsed.timestamp

\* Line 271: we already have this descriptor.
SameBytes(e, desc, desc_len) ==
  e # NullEntry /\ e.len = desc_len /\ MemEq(desc, e.desc, desc_len)

\* Mutant of RefreshEntry: received is not updated.
RefreshEntry_Noop(e, later) == e

\* Line 273: the entry, refreshed.
RefreshEntry(e, later) == [e EXCEPT !.received = later]

\* Lines 284-288: the entry, filled with the new descriptor.
FillEntry(parsed, desc, desc_len, later) ==
  [received |-> later, parsed |-> parsed, len |-> desc_len,
   desc |-> SubSeq(desc, 1, desc_len)]

\* What a call returns and leaves: the return value, the map, the message it
\* logged, and its locals parsed, query and e (as far as it got).
StoreResult(ret, map, log, parsed, query, e) ==
  [ret |-> ret, cache |-> map, log |-> log, parsed |-> parsed, query |-> query,
   e |-> e]

\* A rejection that also drops the entry cached for the service ID.
Reject_DropsCached(map, log, parsed, query) ==
  StoreResult(-1, strmap_remove(map, StrLower(query)), log, parsed, query, NullEntry)

\* The returns of -1 (lines 244-264): the warning is logged, parsed is freed
\* and the map is left alone.
Reject(map, log, parsed, query) ==
  StoreResult(-1, map, log, parsed, query, NullEntry)

\* The call from line 245 on; p is what rend_parse_service_descriptor(desc,
\* desc_len) has returned at line 244.
StoreParsed(map, desc, desc_len, now, later, p) ==
  IF ~p.ok
    THEN Reject(map, "Couldn't parse service descriptor", NullEntry, << >>)
  ELSE
  LET parsed == p.desc
      id == StoreQuery(parsed)
      query == id.out
  IN
  IF id.ret < 0
    THEN Reject(map, "Couldn't compute service ID", parsed, << >>)
  ELSE IF TooOldAt(parsed, now)
    THEN Reject(map, "Service descriptor is too old", parsed, query)
  ELSE IF TooNewAt(parsed, now)
    THEN Reject(map, "Service descriptor is too far in the future", parsed, query)
  ELSE
  LET e == strmap_get_lc(map, query)
  IN
  IF HaveNewer(e, parsed)
    THEN StoreResult(0, map, "We already have a newer service descriptor",
                     parsed, query, e)
  ELSE IF SameBytes(e, desc, desc_len)
    THEN StoreResult(0, [map EXCEPT ![StrLower(query)] = RefreshEntry(e, later)],
                     "We already have this service descriptor", parsed, query, e)
  ELSE
  LET new == FillEntry(parsed, desc, desc_len, later)
  IN  StoreResult(0,
                  IF e = NullEntry THEN strmap_set_lc(map, query, new)
                  ELSE [map EXCEPT ![StrLower(query)] = new],
                  "Successfully stored rend desc", parsed, query, e)

\* desc is one of StoreInputs and desc_len its length; now is the time(NULL)
\* of line 254, later the time(NULL) of line 273 or 284.
rend_cache_store(map, desc, desc_len, now, later) ==
  StoreParsed(map, desc, desc_len, now, later, ParsedInput[desc])

(***************************************************************************)
(* State.                                                                  *)
(***************************************************************************)
VARIABLES
  rend_cache,   \* the map from service ID to cache entry
  clock,        \* the wall clock, what time(NULL) returns
  last,         \* the last call: its arguments, the time it read first, its results
  maxAccepted,  \* history: per service ID, the greatest timestamp store returned 0 for
  lastStored    \* history: per service ID, the bytes last inserted or replaced

vars == << rend_cache, clock, last, maxAccepted, lastStored >>

AllIds == {ServiceId(k) : k \in AllKeys}

\* rend_cache_init; no store has returned 0 yet (-1) or stored bytes (empty).
Init ==
  /\ rend_cache = << >>
  /\ clock = Base
  /\ last = [op |-> "init"]
  /\ maxAccepted = [id \in AllIds |-> -1]
  /\ lastStored = [id \in AllIds |-> << >>]

\* What the call rend_cache_store(desc, Len(desc)) leaves when it read the
\* time now first and later last, and r is what it returned and did.
StoreDone(desc, now, later, r) ==
  /\ rend_cache' = r.cache
  /\ clock' = later
  /\ last' = [op |-> "store", desc |-> desc, now |-> now,
              ret |-> r.ret, log |-> r.log,
              e_timestamp |-> IF r.e = NullEntry THEN -1
                              ELSE r.e.parsed.timestamp]
  /\ maxAccepted' =
       IF r.ret = 0 /\ r.parsed.timestamp > maxAccepted[r.query]
         THEN [maxAccepted EXCEPT ![r.query] = r.parsed.timestamp]
         ELSE maxAccepted
  /\ lastStored' =
       IF r.log = "Successfully stored rend desc"
         THEN [lastStored EXCEPT ![r.query] = desc]
         ELSE lastStored

\* A call of rend_cache_store(desc, Len(desc)); the clock may advance between
\* its reads of the time.
Store(desc) ==
  \E dt \in 0..MaxDrift :
    /\ clock + dt <= Base + MaxTick
    /\ StoreDone(desc, clock, clock + dt,
                 rend_cache_store(rend_cache, desc, Len(desc), clock, clock + dt))

\* A call of rend_cache_lookup_desc(query, &desc, &desc_len).
Lookup(query) ==
  LET r == rend_cache_lookup_desc(rend_cache, query)
  IN  /\ last' = [op |-> "lookup", query |-> query, ret |-> r.ret,
                  desc |-> r.desc, desc_len |-> r.desc_len]
      /\ UNCHANGED << rend_cache, clock, maxAccepted, lastStored >>

\* A call of rend_cache_clean().
Clean ==
  \E order \in IterOrders(rend_cache) :
    /\ rend_cache' = rend_cache_clean(rend_cache, clock, order)
    /\ last' = [op |-> "clean", order |-> order,
                removed |-> (DOMAIN rend_cache) \ (DOMAIN rend_cache')]
    /\ UNCHANGED << clock, maxAccepted, lastStored >>

\* The wall clock advances between calls.
Tick ==
  /\ clock < Base + MaxTick
  /\ clock' = clock + 1
  /\ UNCHANGED << rend_cache, last, maxAccepted, lastStored >>

StoreAny == \E desc \in StoreInputs : Store(desc)

LookupAny == \E query \in Queries : Lookup(query)

Next == StoreAny \/ LookupAny \/ Clean \/ Tick

Spec == Init /\ [][Next]_vars

\* The cache under store calls alone (no rend_cache_clean).
NextStore == StoreAny \/ LookupAny \/ Tick

SpecStore == Init /\ [][NextStore]_vars

(***************************************************************************)
(* The codec on its own: a behaviour is one call of                        *)
(* rend_encode_service_descriptor or of rend_parse_service_descriptor.     *)
(***************************************************************************)
\* Introduction point lists: none; "a"; the empty string; "ab" and the empty
\* string; the empty string and "b"; "@", one bit away from NUL.
CodecPoints ==
  {<< >>, << << 97 >> >>, << << >> >>, << << 97, 98 >>, << >> >>,
   << << >>, << 98 >> >>, << << 64 >> >>}

\* Times << hi, lo >>, standing for hi * 2^31 + lo: 0, Base, 2^31 - 1, 2^31,
\* 2^32 - 1, 2^32, 2^32 + Base, 2^32 + 2^31 + Base.
CodecTimes ==
  {<< 0, 0 >>, << 0, Base >>, << 0, MaxLow >>, << 1, 0 >>, << 1, MaxLow >>,
   << 2, 0 >>, << 2, Base >>, << 3, Base >>}

\* A key of each modulus length.
CodecKeys == {1, 4}

CodecDescriptors ==
  {MkWideDesc(pk, t[1], t[2], points) :
     pk \in CodecKeys, t \in CodecTimes, points \in CodecPoints}

\* The keys a caller signs desc with: the contract asks for the private half
\* of desc.pk; a key of another service has the same modulus length.
Signers(desc) ==
  {key \in AllKeys : crypto_pk_keysize(key) = crypto_pk_keysize(desc.pk)}

\* rend_encode_service_descriptor(d, d.pk) for each descriptor, computed once.
EncodedOf == [d \in CodecDescriptors |-> rend_encode_service_descriptor(d, d.pk)]

\* The descriptors whose encodings are cut, changed and extended.
WireDescriptors == {d \in CodecDescriptors : d.timestamp_hi < 2}

\* str with bit k % 8 of the byte at offset k \div 8 inverted.
FlipBit(str, k) ==
  LET j == (k \div 8) + 1
      w == Pow2[(k % 8) + 1]
  IN  [str EXCEPT ![j] = IF (str[j] \div w) % 2 = 1 THEN str[j] - w ELSE str[j] + w]

\* Bytes appended to an encoding.
Junk == {<< 0 >>, << 255 >>, << 0, 0 >>, << 7, 0, 9 >>}

\* Byte strings that come from no encoder: every string of up to three bytes
\* over a few values, and headers that announce more than follows.
ArbitraryInputs ==
  LET B == {0, 2, 48, 255}
  IN  {<< >>} \cup {<< a >> : a \in B} \cup {<< a, b >> : a, b \in B}
        \cup {<< a, b, c >> : a, b, c \in B}
        \cup {<< 0, 2, 48, 1, 0, 0, 0, 0, 255, 255 >>,
              << 0, 2, 48, 1, 255, 255, 255, 255, 0, 2, 0 >>,
              << 0, 2, 48, 1, 0, 0, 0, 1, 0, 3, 97, 0, 0, 0 >>,
              << 0, 2, 48, 4, 0, 0, 0, 1, 0, 1, 0, 1, 2 >>,
              << 0, 2, 48, 9, 0, 0, 0, 1, 0, 0, 1, 2 >>,
              << 0, 3, 48, 1, 0, 0, 0, 0, 0, 0 >>,
              << 0, 2, 48, 1, 0, 0, 0, 1, 0, 1, 97, 98, 99 >>}

\* A call rend_encode_service_descriptor(desc, key, &str, &len).
Encode(desc, key) ==
  /\ last.op = "init"
  /\ last' = [op |-> "encode", desc |-> desc, key |-> key,
              r |-> rend_encode_service_descriptor(desc, key)]
  /\ UNCHANGED << rend_cache, clock, maxAccepted, lastStored >>

\* What a call rend_parse_service_descriptor(str, Len(str)) leaves.
Parsed(how, desc, arg, str) ==
  [op |-> "parse", how |-> how, desc |-> desc, arg |-> arg, str |-> str,
   len |-> Len(str), r |-> rend_parse_service_descriptor(str, Len(str))]

\* The parser called on the encoder's output.
ParseEncoded(desc) ==
  /\ last.op = "init"
  /\ last' = Parsed("encoded", desc, 0, EncodedOf[desc].str)
  /\ UNCHANGED << rend_cache, clock, maxAccepted, lastStored >>

\* The parser called on the first m bytes of an encoding.
ParseTruncated(desc, m) ==
  /\ last.op = "init"
  /\ last' = Parsed("prefix", desc, m, SubSeq(EncodedOf[desc].str, 1, m))
  /\ UNCHANGED << rend_cache, clock, maxAccepted, lastStored >>

\* The parser called on an encoding with bit k inverted.
ParseFlipped(desc, k) ==
  /\ last.op = "init"
  /\ last' = Parsed("flip", desc, k, FlipBit(EncodedOf[desc].str, k))
  /\ UNCHANGED << rend_cache, clock, maxAccepted, lastStored >>

\* The parser called on an encoding followed by more bytes.
ParseExtended(desc, junk) ==
  /\ last.op = "init"
  /\ last' = Parsed("junk", desc, junk, EncodedOf[desc].str \o junk)
  /\ UNCHANGED << rend_cache, clock, maxAccepted, lastStored >>

\* The parser called on bytes that come from no encoder.
ParseArbitrary(str) ==
  /\ last.op = "init"
  /\ last' = [op |-> "parse", how |-> "arbitrary", str |-> str, len |-> Len(str),
              r |-> rend_parse_service_descriptor(str, Len(str))]
  /\ UNCHANGED << rend_cache, clock, maxAccepted, lastStored >>

EncodeAny == \E desc \in CodecDescriptors : \E key \in Signers(desc) : Encode(desc, key)

ParseEncodedAny == \E desc \in CodecDescriptors : ParseEncoded(desc)

ParseTruncatedAny ==
  \E desc \in WireDescriptors :
    \E m \in 0..(Len(EncodedOf[desc].str) - 1) : ParseTruncated(desc, m)

ParseFlippedAny ==
  \E desc \in WireDescriptors :
    \E k \in 0..(8 * Len(EncodedOf[desc].str) - 1) : ParseFlipped(desc, k)

ParseExtendedAny == \E desc \in WireDescriptors : \E junk \in Junk : ParseExtended(desc, junk)

ParseArbitraryAny == \E str \in ArbitraryInputs : ParseArbitrary(str)

NextCodec ==
  \/ EncodeAny
  \/ ParseEncodedAny
  \/ ParseTruncatedAny
  \/ ParseFlippedAny
  \/ ParseExtendedAny
  \/ ParseArbitraryAny

SpecCodec == Init /\ [][NextCodec]_vars

(***************************************************************************)
(* rend_process_relay_cell.  The handlers live in other files: a handler   *)
(* is known by its name, and what it returns is an input of the call.      *)
(***************************************************************************)
\* The relay command codes of or.h.
RELAY_COMMAND_ESTABLISH_INTRO == 32
RELAY_COMMAND_ESTABLISH_RENDEZVOUS == 33
RELAY_COMMAND_INTRODUCE1 == 34
RELAY_COMMAND_INTRODUCE2 == 35
RELAY_COMMAND_RENDEZVOUS1 == 36
RELAY_COMMAND_RENDEZVOUS2 == 37
RELAY_COMMAND_INTRO_ESTABLISHED == 38
RELAY_COMMAND_RENDEZVOUS_ESTABLISHED == 39
RELAY_COMMAND_INTRODUCE_ACK == 40

\* The switch with the handlers of INTRODUCE1 and INTRODUCE2 exchanged.
HandlerOf_Exchanged(command) ==
  CASE command = RELAY_COMMAND_ESTABLISH_INTRO -> "rend_mid_establish_intro"
    [] command = RELAY_COMMAND_ESTABLISH_RENDEZVOUS -> "rend_mid_establish_rendezvous"
    [] command = RELAY_COMMAND_INTRODUCE1 -> "rend_service_introduce"
    [] command = RELAY_COMMAND_INTRODUCE2 -> "rend_mid_introduce"
    [] command = RELAY_COMMAND_INTRODUCE_ACK -> "rend_client_introduction_acked"
    [] command = RELAY_COMMAND_RENDEZVOUS1 -> "rend_mid_rendezvous"
    [] command = RELAY_COMMAND_RENDEZVOUS2 -> "rend_client_receive_rendezvous"
    [] command = RELAY_COMMAND_INTRO_ESTABLISHED -> "rend_service_intro_established"
    [] command = RELAY_COMMAND_RENDEZVOUS_ESTABLISHED -> "rend_client_rendezvous_acked"
    [] OTHER -> "default"

\* The case labels of the switch (lines 302-329): the function each case
\* calls, "default" for the default label.
HandlerOf(command) ==
  CASE command = RELAY_COMMAND_ESTABLISH_INTRO -> "rend_mid_establish_intro"
    [] command = RELAY_COMMAND_ESTABLISH_RENDEZVOUS -> "rend_mid_establish_rendezvous"
    [] command = RELAY_COMMAND_INTRODUCE1 -> "rend_mid_introduce"
    [] command = RELAY_COMMAND_INTRODUCE2 -> "rend_service_introduce"
    [] command = RELAY_COMMAND_INTRODUCE_ACK -> "rend_client_introduction_acked"
    [] command = RELAY_COMMAND_RENDEZVOUS1 -> "rend_mid_rendezvous"
    [] command = RELAY_COMMAND_RENDEZVOUS2 -> "rend_client_receive_rendezvous"
    [] command = RELAY_COMMAND_INTRO_ESTABLISHED -> "rend_service_intro_established"
    [] command = RELAY_COMMAND_RENDEZVOUS_ESTABLISHED -> "rend_client_rendezvous_acked"
    [] OTHER -> "default"

\* rend_process_relay_cell(circ, command, length, payload), the handler
\* returning result: the calls it makes in order, the value left in r, and
\* whether it returns or the process aborts in tor_assert(0).
rend_process_relay_cell(circ, command, length, payload, result) ==
  LET handler == HandlerOf(command)
  IN  IF handler = "default"
        THEN [calls |-> << >>, returned |-> FALSE, aborted |-> TRUE]
        ELSE [calls |-> << [handler |-> handler, circ |-> circ,
                            payload |-> payload, length |-> length, r |-> result] >>,
              returned |-> TRUE, aborted |-> FALSE]

\* The circuits, cells and handler results of the model.  A cell carries a
\* rendezvous command or another relay command (RELAY_COMMAND_DATA 2,
\* RELAY_COMMAND_TRUNCATED 9) or no command at all.
Circuits == {"circ_a", "circ_b"}

DispatchCommands == 32..40 \cup {2, 9, 31, 41}

Payloads == {<< >>, << 1 >>, << 1, 2 >>}

HandlerResults == {0, -1}

\* The process is gone once an assertion has failed.
Aborted == last.op = "dispatch" /\ last.aborted

\* A call rend_process_relay_cell(circ, command, Len(payload), payload).
Dispatch(circ, command, payload, result) ==
  /\ ~Aborted
  /\ LET d == rend_process_relay_cell(circ, command, Len(payload), payload, result)
     IN  last' = [op |-> "dispatch", circ |-> circ, command |-> command,
                  length |-> Len(payload), payload |-> payload,
                  calls |-> d.calls, returned |-> d.returned, aborted |-> d.aborted]
  /\ UNCHANGED << rend_cache, clock, maxAccepted, lastStored >>

NextDispatch ==
  \E circ \in Circuits : \E command \in DispatchCommands :
    \E payload \in Payloads : \E result \in HandlerResults :
      Dispatch(circ, command, payload, result)

SpecDispatch == Init /\ [][NextDispatch]_vars

(***************************************************************************)
(* Properties.                                                             *)
(***************************************************************************)
\* The last call was a store of a descriptor that parses and verifies.
LastStoreParsed == last.op = "store" /\ ParsedInput[last.desc].ok

LastParsed == ParsedInput[last.desc].desc

LastId == ServiceId(LastParsed.pk)

\* C1: under store calls alone, the entry held for a service ID has the
\* greatest timestamp among the descriptors store returned 0 for (so no store
\* has replaced a descriptor by one with a smaller timestamp), and an ID has
\* an entry exactly when a store of it has returned 0.
C1_CacheMonotonicity ==
  \A id \in AllIds :
    /\ (id \in DOMAIN rend_cache) <=> (maxAccepted[id] >= 0)
    /\ id \in DOMAIN rend_cache =>
         rend_cache[id].parsed.timestamp = maxAccepted[id]

\* An older descriptor was presented after a newer one and was dropped.
C1_Witness ==
  /\ LastStoreParsed
  /\ last.ret = 0
  /\ last.log = "We already have a newer service descriptor"
  /\ LastParsed.timestamp < maxAccepted[LastId]
  /\ rend_cache[LastId].parsed.timestamp = maxAccepted[LastId]

\* C2: a store at time now of a descriptor that parses and verifies returns 0
\* iff now - 86400 <= timestamp <= now + 5400, and -1 iff the timestamp is
\* below now - 86400 or above now + 5400.
C2_FreshnessWindow ==
  LastStoreParsed =>
    LET t == LastParsed.timestamp
        now == last.now
    IN  /\ last.ret = 0 <=> (now - 86400 <= t /\ t <= now + 5400)
        /\ last.ret = -1 <=> (t < now - 86400 \/ t > now + 5400)

\* A descriptor with timestamp exactly now - 86400 was accepted.
C2_Witness ==
  /\ LastStoreParsed
  /\ LastParsed.timestamp = last.now - 86400
  /\ last.ret = 0
  /\ rend_cache[LastId].desc = last.desc

\* The service ID (rend_get_service_id of its key) of an input that parses.
InputId(desc) == ServiceId(ParsedInput[desc].desc.pk)

InputTimestamp(desc) == ParsedInput[desc].desc.timestamp

\* The input's timestamp is inside the freshness window at time t.
FreshAt(desc, t) ==
  t - 86400 <= InputTimestamp(desc) /\ InputTimestamp(desc) <= t + 5400

\* This step is a call of rend_cache_store on the valid input desc.
StoreStep(desc) ==
  last'.op = "store" /\ last'.desc = desc /\ desc \in ValidInputs /\ Store(desc)

\* The cache holds an entry for the input's service ID with the input's timestamp.
SameTimestampCached(desc) ==
  /\ InputId(desc) \in DOMAIN rend_cache
  /\ rend_cache[InputId(desc)].parsed.timestamp = InputTimestamp(desc)

\* C3 as stated: a store of a fresh descriptor whose service ID is cached with
\* the same timestamp returns 0 and leaves the cached bytes and parsed
\* descriptor those of the first-stored descriptor.
C3_EqualTimestampFirstWins ==
  [][LET desc == last'.desc IN
       (StoreStep(desc) /\ FreshAt(desc, clock) /\ SameTimestampCached(desc)) =>
         /\ last'.ret = 0
         /\ rend_cache'[InputId(desc)].desc = rend_cache[InputId(desc)].desc
         /\ rend_cache'[InputId(desc)].parsed = rend_cache[InputId(desc)].parsed]_vars

\* C3 amended: such a store returns 0; when its bytes are those of the cached
\* entry the entry keeps its bytes and parsed descriptor, and when they differ
\* the entry is replaced by the new descriptor (the later one wins).
C3_EqualTimestampLastWins ==
  [][LET desc == last'.desc IN
       (StoreStep(desc) /\ FreshAt(desc, clock) /\ SameTimestampCached(desc)) =>
         LET old == rend_cache[InputId(desc)]
             new == rend_cache'[InputId(desc)]
         IN  /\ last'.ret = 0
             /\ old.desc = desc => (new.desc = old.desc /\ new.parsed = old.parsed)
             /\ old.desc # desc =>
                  /\ new.desc = desc
                  /\ new.len = Len(desc)
                  /\ new.parsed = ParsedInput[desc].desc
                  /\ new.desc # old.desc]_vars

\* A descriptor replaced a cached one of the same timestamp and other bytes.
C3_Witness ==
  /\ LastStoreParsed
  /\ last.log = "Successfully stored rend desc"
  /\ last.e_timestamp = LastParsed.timestamp
  /\ rend_cache[LastId].desc = last.desc
  /\ LastParsed.n_intro_points = 2

\* Two store calls in a row, the first at time t1 and the second at t2.
StoreFirst(map, a, t1) == rend_cache_store(map, a, Len(a), t1, t1)

StoreSecond(map, a, b, t1, t2) ==
  rend_cache_store(StoreFirst(map, a, t1).cache, b, Len(b), t2, t2)

\* C4: for descriptors a and b of one service ID, b with the greater
\* timestamp, both fresh at the times of both calls, and a cache holding
\* nothing newer than b for that ID: a then b and b then a return 0 four times
\* and both leave the cache holding the bytes and parsed form of b.
C4_OrderIndependence ==
  \A a, b \in ValidInputs :
    \A t1, t2 \in clock..(Base + MaxTick) :
      ( /\ InputId(a) = InputId(b)
        /\ InputTimestamp(a) < InputTimestamp(b)
        /\ t1 <= t2
        /\ FreshAt(a, t1) /\ FreshAt(a, t2) /\ FreshAt(b, t1) /\ FreshAt(b, t2)
        /\ InputId(b) \in DOMAIN rend_cache =>
             rend_cache[InputId(b)].parsed.timestamp <= InputTimestamp(b) )
      => LET ab == StoreSecond(rend_cache, a, b, t1, t2)
             ba == StoreSecond(rend_cache, b, a, t1, t2)
             held(r) == r.cache[InputId(b)]
         IN  /\ StoreFirst(rend_cache, a, t1).ret = 0 /\ ab.ret = 0
             /\ StoreFirst(rend_cache, b, t1).ret = 0 /\ ba.ret = 0
             /\ held(ab).desc = b /\ held(ab).parsed = ParsedInput[b].desc
             /\ held(ba).desc = b /\ held(ba).parsed = ParsedInput[b].desc
             /\ held(ab).len = Len(b) /\ held(ba).len = Len(b)

\* A newer descriptor was stored over an older one of the same service ID.
C4_Witness ==
  /\ LastStoreParsed
  /\ last.ret = 0
  /\ last.log = "Successfully stored rend desc"
  /\ last.e_timestamp >= 0
  /\ last.e_timestamp < LastParsed.timestamp
  /\ rend_cache[LastId].desc = last.desc

\* C5 as stated: a lookup whose query is the service ID of a cached entry
\* written with uppercase letters returns 1 with that entry's bytes and length.
C5_UppercaseLookupHits ==
  ( /\ last.op = "lookup"
    /\ last.query # StrLower(last.query)
    /\ StrLower(last.query) \in DOMAIN rend_cache )
  => /\ last.ret = 1
     /\ last.desc = rend_cache[StrLower(last.query)].desc
     /\ last.desc_len = rend_cache[StrLower(last.query)].len

\* The query is exactly 16 characters, all of the base32 alphabet a-z, 2-7.
WellFormedQuery(q) == Len(q) = 16 /\ \A i \in 1..Len(q) : q[i] \in Base32Set

\* C6: a lookup returns -1 iff the query is not 16 characters of the base32
\* alphabet; for a well-formed query it returns 0 when the cache has no entry
\* for it, and otherwise 1 with the bytes and length that the most recent
\* inserting or replacing store put in the cache for that ID.
C6_LookupValidity ==
  last.op = "lookup" =>
    LET q == last.query
    IN  /\ last.ret = -1 <=> ~WellFormedQuery(q)
        /\ WellFormedQuery(q) =>
             IF q \in DOMAIN rend_cache
               THEN /\ last.ret = 1
                    /\ last.desc = lastStored[q]
                    /\ last.desc_len = Len(lastStored[q])
               ELSE last.ret = 0

\* A lookup hit that returned the bytes of the descriptor with two
\* introduction points.
C6_Witness ==
  /\ last.op = "lookup"
  /\ last.ret = 1
  /\ last.desc = Encoded(MkDesc(1, Base, PointsAB))
  /\ last.desc_len = Len(last.desc)

\* C7: rend_cache_clean at time now leaves exactly the entries that were
\* present and have timestamp >= now - 86400, each unchanged, whatever the
\* order in which the entries are visited.
C7_CleanExact ==
  [][Clean =>
       LET keep == {k \in DOMAIN rend_cache :
                      rend_cache[k].parsed.timestamp >= clock - 86400}
       IN  /\ DOMAIN rend_cache' = keep
           /\ \A k \in keep : rend_cache'[k] = rend_cache[k]]_vars

\* A clean removed the first two entries it visited and kept the third.
C7_Witness ==
  /\ last.op = "clean"
  /\ Len(last.order) = 3
  /\ last.removed = {last.order[1], last.order[2]}
  /\ DOMAIN rend_cache = {last.order[3]}

\* The cache holds the input's bytes, byte for byte, for the input's service ID.
SameBytesCached(desc) ==
  /\ InputId(desc) \in DOMAIN rend_cache
  /\ rend_cache[InputId(desc)].len = Len(desc)
  /\ rend_cache[InputId(desc)].desc = desc

\* C8: a store of bytes identical to the entry cached for that service ID,
\* fresh at the time of the call, returns 0 and changes nothing in the cache
\* but that entry's received time, which becomes the time the call reads when
\* it refreshes the entry.
C8_DuplicateIdempotence ==
  [][LET desc == last'.desc IN
       (StoreStep(desc) /\ FreshAt(desc, clock) /\ SameBytesCached(desc)) =>
         /\ last'.ret = 0
         /\ rend_cache' =
              [rend_cache EXCEPT ![InputId(desc)].received = clock']]_vars

\* A duplicate was stored at a later time than the entry it refreshed.
C8_Witness ==
  /\ LastStoreParsed
  /\ last.ret = 0
  /\ last.log = "We already have this service descriptor"
  /\ rend_cache[LastId].desc = last.desc
  /\ rend_cache[LastId].received = clock
  /\ clock > Base

\* C9 as stated: every entry has timestamp <= received + 5400 and
\* received - timestamp <= 86400.
C9_EntryTimeInvariant ==
  \A k \in DOMAIN rend_cache :
    /\ rend_cache[k].parsed.timestamp <= rend_cache[k].received + 5400
    /\ rend_cache[k].received - rend_cache[k].parsed.timestamp <= 86400

\* C10: every entry is stored under the service ID of its own public key, no
\* two entries have the same service ID (compared without case), and a store
\* for an ID that has an entry adds no entry.
C10_CacheKeyInvariant ==
  /\ [](/\ \A k \in DOMAIN rend_cache : k = ServiceId(rend_cache[k].parsed.pk)
        /\ \A k1, k2 \in DOMAIN rend_cache :
             StrLower(k1) = StrLower(k2) => k1 = k2)
  /\ [][LET desc == last'.desc IN
          (StoreStep(desc) /\ InputId(desc) \in DOMAIN rend_cache) =>
            DOMAIN rend_cache' = DOMAIN rend_cache]_vars

\* Three services are cached and the last store replaced an entry.
C10_Witness ==
  /\ LastStoreParsed
  /\ last.log = "Successfully stored rend desc"
  /\ last.e_timestamp >= 0
  /\ Cardinality(DOMAIN rend_cache) = 3

LastParse(how) == last.op = "parse" /\ last.how = how

SameDescriptor(a, b) ==
  /\ a.pk = b.pk
  /\ a.timestamp = b.timestamp /\ a.timestamp_hi = b.timestamp_hi
  /\ a.n_intro_points = b.n_intro_points
  /\ a.intro_points = b.intro_points

\* C11 as stated: for every descriptor, with any timestamp, the parse of its
\* encoding succeeds and yields the same key, timestamp, count and
\* introduction points.
C11_RoundTripAnyTimestamp ==
  LastParse("encoded") => last.r.ok /\ SameDescriptor(last.r.desc, last.desc)

\* C11: for every descriptor with a timestamp below 2^32, any number of
\* introduction points and introduction points of any length, the parse of
\* its encoding under its own key succeeds and yields the same key, the same
\* timestamp, the same count and the same introduction points in order.
C11_RoundTrip ==
  LastParse("encoded") /\ last.desc.timestamp_hi < 2 =>
    last.r.ok /\ SameDescriptor(last.r.desc, last.desc)

C11_Witness ==
  /\ LastParse("encoded")
  /\ last.desc.timestamp_hi = 1
  /\ last.desc.intro_points = << << >>, << 98 >> >>
  /\ last.r.ok
  /\ last.r.desc.intro_points = << << >>, << 98 >> >>

\* Where the fields of the encoding of last.desc lie, by the wire format.
TimestampOffset == 2 + Len(crypto_pk_asn1_encode(last.desc.pk))

SignatureOffset == Len(EncodedOf[last.desc].str) - crypto_pk_keysize(last.desc.pk)

FlippedOffset == last.arg \div 8

FlipInTimestamp ==
  FlippedOffset >= TimestampOffset /\ FlippedOffset < TimestampOffset + 4

FlipInSignature == FlippedOffset >= SignatureOffset

\* C12 as stated: inverting any single bit of a valid encoding, before or in
\* the signature, makes the parser fail through the bad-signature path.
C12_FlipIsBadSignature ==
  LastParse("flip") => ~last.r.ok /\ last.r.err = "bad signature"

\* C12: inverting any single bit of a valid encoding never lets the parser
\* return a descriptor; a bit of the timestamp or of the signature makes it
\* fail through the bad-signature path, after the signature check has run.
C12_FlipFails ==
  LastParse("flip") =>
    /\ ~last.r.ok
    /\ FlipInTimestamp \/ FlipInSignature =>
         last.r.err = "bad signature" /\ last.r.checksig

C12_Witness ==
  /\ LastParse("flip")
  /\ FlipInTimestamp
  /\ ~last.r.ok
  /\ last.r.err = "bad signature"

\* C13: the parser called on the first m bytes of a valid encoding of n
\* bytes, 0 <= m < n, fails through the truncated path: it returns no
\* descriptor, does not find the signature too long and runs no signature
\* check.
C13_TruncationMonotonicity ==
  LastParse("prefix") =>
    ~last.r.ok /\ last.r.err = "truncated" /\ ~last.r.checksig

C13_Witness ==
  /\ LastParse("prefix")
  /\ last.arg = Len(EncodedOf[last.desc].str) - 1
  /\ last.desc.intro_points = << << 97, 98 >>, << >> >>
  /\ ~last.r.ok
  /\ last.r.err = "truncated"

\* C14: the parser called on a valid encoding followed by one or more bytes
\* fails through the signature-too-long path, before any signature check,
\* and returns no descriptor.
C14_TrailingJunkRejection ==
  LastParse("junk") =>
    ~last.r.ok /\ last.r.err = "signature too long" /\ ~last.r.checksig

C14_Witness ==
  /\ LastParse("junk")
  /\ last.arg = << 7, 0, 9 >>
  /\ ~last.r.ok
  /\ last.r.err = "signature too long"

RECURSIVE PointBytes(_)
\* The sum over the introduction points of (length + 1).
PointBytes(points) ==
  IF points = << >> THEN 0 ELSE Len(Head(points)) + 1 + PointBytes(Tail(points))

\* C15: when rend_encode_service_descriptor returns 0, *len_out is
\* 2 + asn1_len + 4 + 2 + the sum of (length + 1) over the introduction points
\* + the key modulus length, the bytes written are as many, the assertion
\* of line 71 holds and nothing is written beyond the buffer of *len_out bytes.
C15_EncodedLength ==
  last.op = "encode" /\ last.r.ret = 0 =>
    /\ last.r.len_out = 2 + Len(crypto_pk_asn1_encode(last.desc.pk)) + 4 + 2
                          + PointBytes(last.desc.intro_points)
                          + crypto_pk_keysize(last.desc.pk)
    /\ last.r.written = last.r.len_out
    /\ Len(last.r.str) = last.r.len_out
    /\ last.r.asserted

C15_Witness ==
  /\ last.op = "encode"
  /\ last.r.ret = 0
  /\ last.desc.pk = 4
  /\ last.desc.intro_points = << << 97, 98 >>, << >> >>
  /\ last.r.len_out = 17
  /\ Len(last.r.str) = 17

\* The four bytes of the timestamp field in the encoder's output.
WrittenTimestamp ==
  LET at == 2 + Len(crypto_pk_asn1_encode(last.desc.pk))
  IN  SubSeq(last.r.str, at + 1, at + 4)

\* C17 as stated: a timestamp of 2^32 or more is written as 2^32 - 1.
C17_TimestampSaturates ==
  last.op = "encode" /\ last.desc.timestamp_hi >= 2 =>
    WrittenTimestamp = << 255, 255, 255, 255 >>

\* C17: the encoder writes the low 32 bits of the timestamp, big-endian, so
\* the parse of the encoding yields the timestamp modulo 2^32: a timestamp
\* below 2^32 unchanged, and for a timestamp of 2^32 or more a smaller one.
C17_TimestampLow32Bits ==
  /\ last.op = "encode" =>
       WrittenTimestamp =
         << (last.desc.timestamp_hi % 2) * 128 + (last.desc.timestamp \div 16777216),
            (last.desc.timestamp \div 65536) % 256,
            (last.desc.timestamp \div 256) % 256,
            last.desc.timestamp % 256 >>
  /\ LastParse("encoded") =>
       /\ last.r.ok
       /\ last.r.desc.timestamp = last.desc.timestamp
       /\ last.r.desc.timestamp_hi = last.desc.timestamp_hi % 2

C17_Witness ==
  /\ LastParse("encoded")
  /\ last.desc.timestamp_hi = 2
  /\ last.desc.timestamp = Base
  /\ last.r.ok
  /\ last.r.desc.timestamp_hi = 0
  /\ last.r.desc.timestamp = Base

\* C18: whatever the input of len bytes, every value the cursor takes lies in
\* 0..len, every range the parser reads lies within offsets 0..len-1, and
\* the parser finishes with a descriptor or with one of its failures.
C18_ParserBoundsSafety ==
  last.op = "parse" =>
    /\ \A i \in 1..Len(last.r.cps) : last.r.cps[i] >= 0 /\ last.r.cps[i] <= last.len
    /\ \A rd \in last.r.reads : rd[1] >= 0 /\ rd[1] <= rd[2] /\ rd[2] <= last.len
    /\ \/ last.r.ok
       \/ last.r.err \in {"truncated", "signature too long", "bad signature"}

C18_Witness ==
  /\ LastParse("arbitrary")
  /\ last.str = << 0, 2, 48, 1, 0, 0, 0, 1, 0, 1, 97, 98, 99 >>
  /\ ~last.r.ok
  /\ << 10, 13 >> \in last.r.reads

\* The one call the dispatcher has made, if it has made exactly one.
OnlyCall(name) ==
  /\ Len(last.calls) = 1
  /\ last.calls[1].handler = name
  /\ last.calls[1].circ = last.circ
  /\ last.calls[1].payload = last.payload
  /\ last.calls[1].length = last.length
  /\ last.returned /\ ~last.aborted

\* C16: for each of the nine rendezvous commands rend_process_relay_cell
\* calls the handler of the table for that command, once, with (circuit,
\* payload, length), and returns whatever the handler returns; for any other
\* command it calls no handler and the process aborts in a failed assertion,
\* after which no call happens any more.
C16_Dispatch ==
  /\ [](last.op = "dispatch" =>
       CASE last.command = RELAY_COMMAND_ESTABLISH_INTRO ->
              OnlyCall("rend_mid_establish_intro")
         [] last.command = RELAY_COMMAND_ESTABLISH_RENDEZVOUS ->
              OnlyCall("rend_mid_establish_rendezvous")
         [] last.command = RELAY_COMMAND_INTRODUCE1 -> OnlyCall("rend_mid_introduce")
         [] last.command = RELAY_COMMAND_INTRODUCE2 -> OnlyCall("rend_service_introduce")
         [] last.command = RELAY_COMMAND_INTRODUCE_ACK ->
              OnlyCall("rend_client_introduction_acked")
         [] last.command = RELAY_COMMAND_RENDEZVOUS1 -> OnlyCall("rend_mid_rendezvous")
         [] last.command = RELAY_COMMAND_RENDEZVOUS2 ->
              OnlyCall("rend_client_receive_rendezvous")
         [] last.command = RELAY_COMMAND_INTRO_ESTABLISHED ->
              OnlyCall("rend_service_intro_established")
         [] last.command = RELAY_COMMAND_RENDEZVOUS_ESTABLISHED ->
              OnlyCall("rend_client_rendezvous_acked")
         [] OTHER -> last.calls = << >> /\ last.aborted /\ ~last.returned)
  /\ [][Aborted => UNCHANGED vars]_vars

C16_Witness ==
  /\ last.op = "dispatch"
  /\ last.command = RELAY_COMMAND_INTRODUCE2
  /\ last.circ = "circ_b"
  /\ last.payload = << 1, 2 >>
  /\ Len(last.calls) = 1
  /\ last.calls[1].handler = "rend_service_introduce"
  /\ last.calls[1].r = -1
  /\ last.returned

\* C19: a call of rend_cache_store that returns -1, whatever the reason,
\* leaves the cache as it was: no entry added, removed or replaced and no
\* entry's bytes, length, parsed descriptor or received time changed.
C19_RejectionLeavesCache ==
  [][LET desc == last'.desc
     IN  last'.op = "store" /\ last'.ret = -1 /\ Store(desc) =>
           rend_cache' = rend_cache]_vars

C19_Witness ==
  /\ last.op = "store"
  /\ last.ret = -1
  /\ last.log = "Service descriptor is too far in the future"
  /\ LastId \in DOMAIN rend_cache
  /\ rend_cache[LastId].parsed.timestamp < LastParsed.timestamp

\* C20: with a wall clock that never goes back, the entry held for a service
\* ID, and so the descriptor a lookup returns, never has a timestamp smaller
\* than that of a descriptor stored for the ID before, calls of
\* rend_cache_clean included; once clean has removed the entry of an ID, a
\* descriptor older than the removed one is rejected.
C20_NoRegressionAcrossClean ==
  /\ [](\A id \in DOMAIN rend_cache :
          rend_cache[id].parsed.timestamp >= maxAccepted[id])
  /\ [](last.op = "lookup" /\ last.ret = 1 =>
          InputTimestamp(last.desc) >= maxAccepted[last.query])
  /\ [][clock' >= clock]_vars
  /\ [][LET desc == last'.desc
        IN  /\ last'.op = "store"
            /\ Store(desc)
            /\ ParsedInput[desc].ok
            /\ InputId(desc) \notin DOMAIN rend_cache
            /\ InputTimestamp(desc) < maxAccepted[InputId(desc)]
            => last'.ret = -1 /\ InputId(desc) \notin DOMAIN rend_cache']_vars

C20_Witness ==
  /\ LastStoreParsed
  /\ last.ret = -1
  /\ LastId \notin DOMAIN rend_cache
  /\ maxAccepted[LastId] >= 0
  /\ LastParsed.timestamp < maxAccepted[LastId]

=============================================================================
